---------------------------- MODULE Spec2Model ----------------------------
(***************************************************************************)
(* doc/html/namespaces_dup.js is a Doxygen navigation table: one array     *)
(* literal, namespaces_dup, whose elements are triples                     *)
(*     [ display name, link target, third element ]                        *)
(* The file holds no functions.  The model is the literal itself plus the  *)
(* positions a reader of the table can stand on: an index path i selects   *)
(* namespaces_dup[i], a path i,j selects namespaces_dup[i][2][j] (0-based  *)
(* in the file, 1-based here).  Two cursors move over these positions so   *)
(* that properties of one entry and of a pair of entries are properties of *)
(* reachable states.                                                       *)
(*                                                                         *)
(* JavaScript values are tagged, since the third element of a triple is    *)
(* null, a string or an array in the file:                                 *)
(*     null        ->  Null                                                *)
(*     "text"      ->  Str("text")                                         *)
(*     [ e, ... ]  ->  List(<<e, ...>>)                                    *)
(* Display names and link targets are kept as TLA+ strings.                *)
(***************************************************************************)
EXTENDS Integers, Sequences, FiniteSets, TLC

VARIABLES pos

vars == <<pos>>

---------------------------------------------------------------------------
(* Tagged JavaScript values for the third element of an entry.             *)

Null == [tag |-> "null", str |-> "", list |-> <<>>]

Str(s) == [tag |-> "string", str |-> s, list |-> <<>>]

List(l) == [tag |-> "list", str |-> "", list |-> l]

(* A third element that is missing; it occurs in no row of the file.       *)
Undefined == [tag |-> "undefined", str |-> "", list |-> <<>>]

---------------------------------------------------------------------------
(* The literal, line by line.  A definition named Row_variant is a faulty  *)
(* form of Row (a row emitted twice, a wrong page, a missing element ...): *)
(* each property below is also run against the table with one row replaced *)
(* by such a variant, and must fail there.                                 *)

AudioProcessorMembers ==
  << <<"audio_adsr_envelope", "namespace_audio_processor.html#ae008bec20dd3d0c1ded65275df5b80b8", Null>>,
     <<"audio_generate_complex_wave", "namespace_audio_processor.html#a57c5af1354f319249f7916183e74b85a", Null>>,
     <<"audio_generate_sawtooth_wave", "namespace_audio_processor.html#ac4306017cb43589f6e7da9992f207100", Null>>,
     <<"audio_generate_sine_wave", "namespace_audio_processor.html#a335525d85a6fd00b3a94ebeb50093500", Null>>,
     <<"audio_generate_square_wave", "namespace_audio_processor.html#a4d44152447a43e47ac594e0419214f5f", Null>>,
     <<"audio_generate_string_wave", "namespace_audio_processor.html#a350edf8b29d7fb215d6e069fb228d4e1", Null>>,
     <<"audio_multiply_gain", "namespace_audio_processor.html#a16c83eb3034d2a401d4e45e491c1b7c6", Null>>,
     <<"audio_note_number_to_freq", "namespace_audio_processor.html#a78902f68a76e4f56fa41ccd42582ff05", Null>>,
     <<"audio_rise_fall_envelope", "namespace_audio_processor.html#ac1ee62b21f986317dba3a16317fd0c82", Null>>,
     <<"audio_stereo_gains", "namespace_audio_processor.html#af6ec1931586580f24c7483878e2e7bad", Null>>,
     <<"audio_stereo_mix_in", "namespace_audio_processor.html#a97a7cc89215033302eb80d08856948d0", Null>>,
     <<"adsr_attack_samples", "namespace_audio_processor.html#a7b0d5468caa4388b60aadeed2b5c9dbb", Null>>,
     <<"adsr_decay_samples", "namespace_audio_processor.html#adc182a54eddbe1d15f16aec025fbfbf6", Null>>,
     <<"adsr_release_samples", "namespace_audio_processor.html#a1a4186265ecee161a8823b2825018c63", Null>> >>

AudioProcessor ==
  <<"AudioProcessor", "namespace_audio_processor.html", List(AudioProcessorMembers)>>

DataStructure_otherTable ==
  <<"DataStructure", "namespace_data_structure.html", Str("namespacedatastructure")>>

DataStructure ==
  <<"DataStructure", "namespace_data_structure.html", Str("namespace_data_structure")>>

mainMembers ==
  << <<"apply_adsr_envelope", "namespacemain.html#a64d9c6e0a696380378c51675821275a6", Null>>,
     <<"apply_rise_fall_envelope", "namespacemain.html#afaf3e4e897be8cf79097bfec07a9a276", Null>>,
     <<"apply_stereo", "namespacemain.html#aace46784eb538958d1ccc130fb4ff433", Null>>,
     <<"compare_two_wave_files", "namespacemain.html#a7bf61d5ff3ea26ace8fe7bf69ba257c2", Null>>,
     <<"create_waveform", "namespacemain.html#ab0ec5311a3c5fc9e0eadb63c1cc3a32c", Null>>,
     <<"generate_song", "namespacemain.html#af46f5bb2c760f56a5e77da4c17ec1c69", Null>>,
     <<"get_filename", "namespacemain.html#ae0652dd6046424e6df071c661d751f0f", Null>>,
     <<"get_wave_parameters", "namespacemain.html#ac887e3e66faa66e5e64c6ec50bf9e078", Null>>,
     <<"main", "namespacemain.html#aa7a58ac748c5293faa4d77a82b94d161", Null>>,
     <<"print_main_menu", "namespacemain.html#a812f03cebb08e2b28db26c9882469c48", Null>> >>

main_otherPage ==
  <<"main", "namespace_main.html", List(mainMembers)>>

main ==
  <<"main", "namespacemain.html", List(mainMembers)>>

Song_noThird ==
  <<"Song", "namespace_song.html", Undefined>>

Song_renamed ==
  <<"Sound", "namespace_song.html", Str("namespace_song")>>

Song ==
  <<"Song", "namespace_song.html", Str("namespace_song")>>

Wave_rowRepeated ==
  <<"Song", "namespace_song.html", Str("namespace_song")>>

Wave_samePage ==
  <<"Wave", "namespace_song.html", Str("namespace_wave")>>

Wave_nested ==
  <<"Wave", "namespace_wave.html",
    List(<< <<"WaveFile", "namespace_wave.html#a0",
              List(<< <<"read", "namespace_wave.html#a1", Null>> >>)>> >>)>>

Wave_withMember ==
  <<"Wave", "namespace_wave.html",
    List(<< <<"generate_song", "namespace_wave.html#af46f5bb2c760f56a5e77da4c17ec1c69", Null>> >>)>>

Wave_outOfOrder ==
  <<"audio", "namespace_wave.html", Str("namespace_wave")>>

Wave ==
  <<"Wave", "namespace_wave.html", Str("namespace_wave")>>

namespaces_dup ==
  <<AudioProcessor, DataStructure, main, Song, Wave>>

---------------------------------------------------------------------------
(* Reading the table: the three elements of a triple, the inline child     *)
(* list, and the entry an index path selects.                              *)

Name(e) == e[1]

Url(e) == e[2]

Third(e) == e[3]

Kids(e) == IF Third(e).tag = "list" THEN Third(e).list ELSE <<>>

RECURSIVE Select(_, _)
Select(list, path) ==
  IF Len(path) = 1
    THEN list[path[1]]
    ELSE Select(Kids(list[path[1]]), Tail(path))

At(path) == Select(namespaces_dup, path)

Front(path) == SubSeq(path, 1, Len(path) - 1)

Last(path) == path[Len(path)]

Siblings(path) ==
  IF Len(path) = 1 THEN namespaces_dup ELSE Kids(At(Front(path)))

---------------------------------------------------------------------------
(* The cursors.                                                            *)

Cursors == {"cur", "other"}

Init == pos = [c \in Cursors |-> <<1>>]

Descend(c) ==
  /\ Len(Kids(At(pos[c]))) > 0
  /\ pos' = [pos EXCEPT ![c] = pos[c] \o <<1>>]

NextSibling(c) ==
  /\ Last(pos[c]) < Len(Siblings(pos[c]))
  /\ pos' = [pos EXCEPT ![c] = Front(pos[c]) \o <<Last(pos[c]) + 1>>]

Ascend(c) ==
  /\ Len(pos[c]) > 1
  /\ pos' = [pos EXCEPT ![c] = Front(pos[c])]

Next ==
  \E c \in Cursors :
    \/ Descend(c)
    \/ NextSibling(c)
    \/ Ascend(c)

Spec == Init /\ [][Next]_vars

---------------------------------------------------------------------------
(* Vocabulary of the properties: positions, string tests, and the          *)
(* case-insensitive order of display names.                                *)

cur == pos["cur"]

other == pos["other"]

TopLevel(path) == Len(path) = 1

Nested(path) == Len(path) > 1

ProperPrefix(p, q) == Len(p) < Len(q) /\ SubSeq(q, 1, Len(p)) = p

DistinctSiblings(p, q) == Len(p) = Len(q) /\ Front(p) = Front(q) /\ p # q

NextOf(p, q) == Len(p) = Len(q) /\ Front(p) = Front(q) /\ Last(q) = Last(p) + 1

NonEmptyString(x) == x \in STRING /\ Len(x) > 0

StartsWith(s, pre) == Len(s) >= Len(pre) /\ SubSeq(s, 1, Len(pre)) = pre

EndsWith(s, suf) ==
  Len(s) >= Len(suf) /\ SubSeq(s, Len(s) - Len(suf) + 1, Len(s)) = suf

Contains(s, ch) == \E i \in 1..Len(s) : SubSeq(s, i, i) = ch

UpperCase == "ABCDEFGHIJKLMNOPQRSTUVWXYZ"

LowerCase == "abcdefghijklmnopqrstuvwxyz"

(* Characters of display names in ascending code order once lower-cased:   *)
(* "_" (95) precedes "a" (97).                                             *)
CodeOrder == "_abcdefghijklmnopqrstuvwxyz"

ToLower(ch) ==
  IF Contains(UpperCase, ch)
    THEN LET i == CHOOSE k \in 1..Len(UpperCase) : SubSeq(UpperCase, k, k) = ch
         IN  SubSeq(LowerCase, i, i)
    ELSE ch

Rank(ch) == CHOOSE k \in 1..Len(CodeOrder) : SubSeq(CodeOrder, k, k) = ToLower(ch)

CharAt(s, i) == SubSeq(s, i, i)

MinLen(s, t) == IF Len(s) <= Len(t) THEN Len(s) ELSE Len(t)

(* The length of the longest common prefix of s and t, ignoring case.      *)
CommonCI(s, t) ==
  CHOOSE k \in 0..MinLen(s, t) :
    /\ \A i \in 1..k : ToLower(CharAt(s, i)) = ToLower(CharAt(t, i))
    /\ k < MinLen(s, t) => ToLower(CharAt(s, k + 1)) # ToLower(CharAt(t, k + 1))

(* s precedes or equals t in case-insensitive alphabetical order.          *)
LeqCI(s, t) ==
  LET k == CommonCI(s, t)
  IN  IF k = MinLen(s, t)
        THEN Len(s) <= Len(t)
        ELSE Rank(CharAt(s, k + 1)) < Rank(CharAt(t, k + 1))

Namespaces == {"AudioProcessor", "DataStructure", "Song", "Wave", "main"}

AudioProcessorCited == {"audio_generate_sine_wave", "audio_adsr_envelope"}

mainCited == {"generate_song", "compare_two_wave_files"}

TopLevelNames == {Name(namespaces_dup[i]) : i \in 1..Len(namespaces_dup)}

(* Display names of the inline members of the top-level entries named ns.  *)
MemberNames(ns) ==
  UNION { {Name(Kids(namespaces_dup[i])[j]) : j \in 1..Len(Kids(namespaces_dup[i]))} :
          i \in {k \in 1..Len(namespaces_dup) : Name(namespaces_dup[k]) = ns} }

IsTriple(e) ==
  /\ Len(e) = 3
  /\ NonEmptyString(Name(e))
  /\ NonEmptyString(Url(e))

---------------------------------------------------------------------------
(* C1, as stated: every entry a cursor can stand on is a triple of a       *)
(* non-empty display name, a non-empty link target and a third element     *)
(* that is null or a list of child entries, and nothing else.              *)
C1_ThirdIsNullOrList ==
  \A c \in Cursors :
    LET e == At(pos[c])
    IN  /\ IsTriple(e)
        /\ Third(e).tag \in {"null", "list"}

(* C1, amended: every entry a cursor can stand on is a triple of a         *)
(* non-empty display name, a non-empty link target and a third element     *)
(* that is null, a list of child triples, or a non-empty string (the name  *)
(* of a child table kept in another file); no other kind occurs.           *)
C1_EntryShape ==
  \A c \in Cursors :
    LET e == At(pos[c])
    IN  /\ IsTriple(e)
        /\ Third(e).tag \in {"null", "list", "string"}
        /\ Third(e).tag = "string" => NonEmptyString(Third(e).str)
        /\ \A j \in 1..Len(Kids(e)) : Len(Kids(e)[j]) = 3

C1_Witness ==
  /\ Third(At(cur)).tag = "string"
  /\ Third(At(other)).tag = "null"

(* C2: two cursors on different entries, at any levels, never read the     *)
(* same link target.                                                       *)
C2_UniqueAnchors ==
  cur # other => Url(At(cur)) # Url(At(other))

C2_Witness ==
  /\ ProperPrefix(cur, other)
  /\ StartsWith(Url(At(other)), Url(At(cur)))

(* C3: a top-level entry links to a page (ends in ".html", holds no "#");  *)
(* a nested entry links to its parent's page followed by "#" and a         *)
(* non-empty anchor id.                                                    *)
C3_LinksFollowNesting ==
  \A c \in Cursors :
    LET p == pos[c]
        u == Url(At(p))
    IN  IF TopLevel(p)
          THEN EndsWith(u, ".html") /\ ~Contains(u, "#")
          ELSE LET pu == Url(At(Front(p)))
               IN  /\ StartsWith(u, pu \o "#")
                   /\ Len(u) > Len(pu) + 1

C3_Witness ==
  /\ TopLevel(cur)
  /\ Nested(other)
  /\ Front(other) # cur

(* C4: the top-level display names are exactly AudioProcessor,             *)
(* DataStructure, Song, Wave and main, each on exactly one top-level       *)
(* entry.                                                                  *)
C4_TopLevelNamespaces ==
  /\ TopLevelNames = Namespaces
  /\ Len(namespaces_dup) = Cardinality(Namespaces)
  /\ \A c \in Cursors : TopLevel(pos[c]) => Name(At(pos[c])) \in Namespaces
  /\ TopLevel(cur) /\ TopLevel(other) /\ cur # other
       => Name(At(cur)) # Name(At(other))

C4_Witness ==
  /\ TopLevel(cur) /\ TopLevel(other)
  /\ Name(At(cur)) = "AudioProcessor"
  /\ Name(At(other)) = "Wave"

(* C5: no cursor gets deeper than two levels, an entry at the second level *)
(* has null as its third element, and an entry is never found again among  *)
(* the entries below it.                                                   *)
C5_DepthTwoLeaves ==
  /\ \A c \in Cursors :
       /\ Len(pos[c]) <= 2
       /\ Nested(pos[c]) => Third(At(pos[c])) = Null
  /\ ProperPrefix(cur, other) => At(other) # At(cur)

C5_Witness ==
  /\ ProperPrefix(cur, other)
  /\ Last(other) = Len(Kids(At(cur)))
  /\ Name(At(cur)) = "AudioProcessor"

(* C6: audio_generate_sine_wave and audio_adsr_envelope are members of     *)
(* AudioProcessor, generate_song and compare_two_wave_files are members of *)
(* main, and a cursor reading one of these names below a namespace is      *)
(* below the namespace named.                                              *)
C6_CitedMembers ==
  /\ AudioProcessorCited \subseteq MemberNames("AudioProcessor")
  /\ mainCited \subseteq MemberNames("main")
  /\ \A c \in Cursors :
       Nested(pos[c]) =>
         /\ Name(At(pos[c])) \in AudioProcessorCited
              => Name(At(Front(pos[c]))) = "AudioProcessor"
         /\ Name(At(pos[c])) \in mainCited
              => Name(At(Front(pos[c]))) = "main"

C6_Witness ==
  /\ Nested(cur) /\ Nested(other)
  /\ Name(At(cur)) = "audio_generate_sine_wave"
  /\ Name(At(other)) = "compare_two_wave_files"

(* C7: when the third element of an entry is a string, the entry's link    *)
(* target is that string followed by ".html".                              *)
C7_DeferredTableNamesPage ==
  \A c \in Cursors :
    LET e == At(pos[c])
    IN  Third(e).tag = "string" => Url(e) = Third(e).str \o ".html"

C7_Witness ==
  /\ Third(At(cur)).tag = "string"
  /\ Third(At(other)).tag = "string"
  /\ cur # other

(* C8: two different entries of the same list (the top level, or the       *)
(* members of one namespace) never have the same display name.             *)
C8_SiblingNamesUnique ==
  DistinctSiblings(cur, other) => Name(At(cur)) # Name(At(other))

C8_Witness ==
  /\ DistinctSiblings(cur, other)
  /\ Nested(cur)
  /\ Name(At(cur)) = Name(At(Front(cur)))

(* C9, as stated: wherever one entry directly follows another in the same  *)
(* list, the first display name precedes or equals the second in           *)
(* case-insensitive alphabetical order.                                    *)
C9_SiblingsAscending ==
  NextOf(cur, other) => LeqCI(Name(At(cur)), Name(At(other)))

(* C9, amended: the order holds between every entry and the one that       *)
(* follows it in the top-level list and in the member list of main; in the *)
(* member list of AudioProcessor it holds everywhere except between        *)
(* audio_stereo_mix_in and adsr_attack_samples, where the list starts      *)
(* again with a second ascending run.                                      *)
C9_AscendingButOneBreak ==
  NextOf(cur, other) =>
    \/ LeqCI(Name(At(cur)), Name(At(other)))
    \/ /\ Nested(cur)
       /\ Name(At(Front(cur))) = "AudioProcessor"
       /\ Name(At(cur)) = "audio_stereo_mix_in"
       /\ Name(At(other)) = "adsr_attack_samples"

C9_Witness ==
  /\ NextOf(cur, other)
  /\ Name(At(cur)) = "main"
  /\ Name(At(other)) = "Song"
  /\ LeqCI(Name(At(cur)), Name(At(other)))

=============================================================================
